---- MODULE Spec2Model ----
(***************************************************************************)
(* A model of fnn/utils.py: the Hankel (delay-embedding) construction, the *)
(* train/test partition builder, the per-column standardizer, the post-    *)
(* parse reshaping of the ARFF loader and the colour helper lighter.       *)
(*                                                                         *)
(* The library is stateless: the state of the model is the last call made  *)
(* (its name and arguments) and what that call returned or raised.         *)
(*                                                                         *)
(* An ndarray is a record [shape |-> <<n1, ..., nk>>, v |-> nested         *)
(* sequences], so that empty axes keep their shape.  Indices in the model  *)
(* are 1-based; the comments give the 0-based Python index where needed.   *)
(* An optional integer argument (p=None) is <<>> for None and <<k>> for k. *)
(***************************************************************************)
EXTENDS Integers, Sequences, FiniteSets

VARIABLES call, ret

vars == <<call, ret>>

---------------------------------------------------------------------------
(* Bounds of the explored inputs.                                          *)

MaxT == 5
MaxD == 2
MaxN == 2
MaxQ == 3
MaxP == 3
MaxLen == 10
MaxS == 3
MaxW == 3
MaxCells == 4
MaxLong == 10
MaxDen == 2

---------------------------------------------------------------------------
(* Python and numpy primitives used by the code.                           *)

Max(a, b) == IF a >= b THEN a ELSE b

Min(a, b) == IF a <= b THEN a ELSE b

(* A slice bound i of a sequence of length n: negative bounds count from   *)
(* the end, and both are clamped to 0..n.                                  *)
Norm(i, n) == IF i < 0 THEN Max(i + n, 0) ELSE Min(i, n)

(* s[a:b] *)
Slice(s, a, b) ==
  LET lo == Norm(a, Len(s))
      hi == Norm(b, Len(s))
  IN  [k \in 1..Max(hi - lo, 0) |-> s[lo + k]]

(* s[a:] *)
SliceFrom(s, a) ==
  LET lo == Norm(a, Len(s))
  IN  [k \in 1..(Len(s) - lo) |-> s[lo + k]]

(* s[:b] *)
SliceTo(s, b) == [k \in 1..Norm(b, Len(s)) |-> s[k]]

(* len(data.shape) *)
ndim(a) == Len(a.shape)

(* data[:, None] of a 1D array: shape (T,) becomes (T, 1) *)
AddAxis(a) ==
  [shape |-> <<a.shape[1], 1>>,
   v     |-> [t \in 1..a.shape[1] |-> <<a.v[t]>>]]

(* scipy.linalg.hankel(c, r): first column c, last row r, r[0] ignored;   *)
(* entry (a, b) is element a + b of c followed by r[1:].                   *)
hankel(c, r) ==
  LET vals == c \o SliceFrom(r, 1)
  IN  [shape |-> <<Len(c), Len(r)>>,
       v     |-> [a \in 1..Len(c) |-> [b \in 1..Len(r) |-> vals[a + b - 1]]]]

---------------------------------------------------------------------------
(* Hankel matrix construction.                                             *)

(* `if not p: p = len(data) - q`: None and 0 both take the default.        *)
EffectiveP(data, q, p) ==
  IF p = <<>> \/ p[1] = 0 THEN data.shape[1] - q ELSE p[1]

(* A variant of _hankel_matrix that drops the first row of the transposed  *)
(* construction ([1:]) instead of the last ([:-1]).                        *)
_hankel_matrix_dropfirst(data0, q, p) ==
  LET data  == IF ndim(data0) = 1 THEN AddAxis(data0) ELSE data0
      T     == data.shape[1]
      D     == data.shape[2]
      pp    == EffectiveP(data, q, p)
      row(d)   == [t \in 1..T |-> data.v[t][d]]
      first(d) == Slice(row(d), -(pp + q), -pp)
      last(d)  == SliceFrom(row(d), -pp - 1)
      hm(d)    == hankel(first(d), last(d))
      A     == Len(first(1))
      B     == Len(last(1))
      rows  == Max(B - 1, 0)
  IN  [shape |-> <<rows, A, D>>,
       v     |-> [i \in 1..rows |-> [j \in 1..A |-> [d \in 1..D |->
                     hm(d).v[j][i + 1]]]]]

(* _hankel_matrix(data, q, p) for a (T,) or (T, D) series: per channel the *)
(* scipy Hankel matrix of the two slices, channels stacked on the last     *)
(* axis, the first two axes swapped and the last row dropped.              *)
_hankel_matrix(data0, q, p) ==
  LET data  == IF ndim(data0) = 1 THEN AddAxis(data0) ELSE data0
      T     == data.shape[1]
      D     == data.shape[2]
      pp    == EffectiveP(data, q, p)
      row(d)   == [t \in 1..T |-> data.v[t][d]]
      first(d) == Slice(row(d), -(pp + q), -pp)
      last(d)  == SliceFrom(row(d), -pp - 1)
      hm(d)    == hankel(first(d), last(d))
      A     == Len(first(1))
      B     == Len(last(1))
      rows  == Max(B - 1, 0)
  IN  [shape |-> <<rows, A, D>>,
       v     |-> [i \in 1..rows |-> [j \in 1..A |-> [d \in 1..D |->
                     hm(d).v[j][i]]]]]

(* A variant of hankel_matrix whose batch branch does not pass p on.       *)
hankel_matrix_batch_default_p(data, q, p) ==
  IF ndim(data) = 3
  THEN LET N     == data.shape[1]
           item(n) == [shape |-> <<data.shape[2], data.shape[3]>>,
                       v     |-> data.v[n]]
           hs(n) == _hankel_matrix(item(n), q, <<>>)
       IN  [shape |-> <<N>> \o hs(1).shape,
            v     |-> [n \in 1..N |-> hs(n).v]]
  ELSE IF ndim(data) = 1
       THEN _hankel_matrix(AddAxis(data), q, p)
       ELSE _hankel_matrix(data, q, p)

(* hankel_matrix(data, q, p): a 3D batch is embedded item by item and      *)
(* stacked, a 1D series gets a channel axis.                               *)
hankel_matrix(data, q, p) ==
  IF ndim(data) = 3
  THEN LET N     == data.shape[1]
           item(n) == [shape |-> <<data.shape[2], data.shape[3]>>,
                       v     |-> data.v[n]]
           hs(n) == _hankel_matrix(item(n), q, p)
       IN  [shape |-> <<N>> \o hs(1).shape,
            v     |-> [n \in 1..N |-> hs(n).v]]
  ELSE IF ndim(data) = 1
       THEN _hankel_matrix(AddAxis(data), q, p)
       ELSE _hankel_matrix(data, q, p)

---------------------------------------------------------------------------
(* Sums and the common rescaling of train_test.                            *)

RECURSIVE SumTo(_, _)
(* f[1] + ... + f[n] *)
SumTo(f, n) == IF n = 0 THEN 0 ELSE f[n] + SumTo(f, n - 1)

(* np.size of a 3D array *)
Size3(a) == a.shape[1] * a.shape[2] * a.shape[3]

(* The sum of the elements of a 3D array (np.mean is Sum3 / Size3). *)
Sum3(a) ==
  SumTo([i \in 1..a.shape[1] |->
    SumTo([j \in 1..a.shape[2] |->
      SumTo([d \in 1..a.shape[3] |-> a.v[i][j][d]], a.shape[3])],
      a.shape[2])], a.shape[1])

(* The sum of the squares of the elements of a 3D array. *)
SumSq3(a) ==
  SumTo([i \in 1..a.shape[1] |->
    SumTo([j \in 1..a.shape[2] |->
      SumTo([d \in 1..a.shape[3] |-> a.v[i][j][d] * a.v[i][j][d]], a.shape[3])],
      a.shape[2])], a.shape[1])

(* (item - mn_train) / (std * std_train), kept exact: with cnt and sum the *)
(* size and element sum of hm_train, mn_train = sum / cnt and std_train =  *)
(* sqrt(den2) / cnt for den2 = cnt * sumsq - sum^2, so an element x maps   *)
(* to (cnt * x - sum) / (std * sqrt(den2)).  The array holds the numerators *)
(* cnt * x - sum; std and den2 are returned beside it.                     *)
Rescale(item, cnt, sum) ==
  [shape |-> item.shape,
   v     |-> [i \in 1..item.shape[1] |-> [j \in 1..item.shape[2] |->
               [d \in 1..item.shape[3] |-> cnt * item.v[i][j][d] - sum]]]]

---------------------------------------------------------------------------
(* IEEE-754 binary64 arithmetic, as Python floats compute line 76.         *)
(*                                                                         *)
(* A natural number of any size is a sequence of limbs, least significant  *)
(* first, each in 0..Base-1, without leading zero limbs (0 is <<>>).  A    *)
(* positive double is [m |-> limbs, e |-> exponent] with value m * 2^e and *)
(* 2^52 <= m < 2^53.  Every operation rounds to nearest, ties to even.     *)
(* Values stay far from the subnormal and overflow ranges here.            *)

MantBits == 53

Base == 2^15

RECURSIVE BigNorm(_)
BigNorm(s) ==
  IF s = <<>> THEN <<>>
  ELSE IF s[Len(s)] = 0 THEN BigNorm(SubSeq(s, 1, Len(s) - 1)) ELSE s

RECURSIVE BigFromInt(_)
BigFromInt(n) ==
  IF n = 0 THEN <<>> ELSE <<n % Base>> \o BigFromInt(n \div Base)

RECURSIVE BigToInt(_)
BigToInt(s) == IF s = <<>> THEN 0 ELSE s[1] + Base * BigToInt(Tail(s))

Limb(s, i) == IF i <= Len(s) THEN s[i] ELSE 0

RECURSIVE AddFrom(_, _, _, _)
AddFrom(a, b, i, c) ==
  IF i > Max(Len(a), Len(b))
  THEN IF c = 0 THEN <<>> ELSE <<c>>
  ELSE LET t == Limb(a, i) + Limb(b, i) + c
       IN  <<t % Base>> \o AddFrom(a, b, i + 1, t \div Base)

BigAdd(a, b) == AddFrom(a, b, 1, 0)

RECURSIVE SubFrom(_, _, _, _)
SubFrom(a, b, i, borrow) ==
  IF i > Len(a) THEN <<>>
  ELSE LET t == Limb(a, i) - Limb(b, i) - borrow
       IN  <<IF t < 0 THEN t + Base ELSE t>>
             \o SubFrom(a, b, i + 1, IF t < 0 THEN 1 ELSE 0)

(* a - b for a >= b *)
BigSub(a, b) == BigNorm(SubFrom(a, b, 1, 0))

RECURSIVE MulFrom(_, _, _, _)
MulFrom(a, k, i, c) ==
  IF i > Len(a) THEN BigFromInt(c)
  ELSE LET t == a[i] * k + c
       IN  <<t % Base>> \o MulFrom(a, k, i + 1, t \div Base)

(* a * k for 0 <= k < Base *)
BigMulSmall(a, k) == BigNorm(MulFrom(a, k, 1, 0))

BigDouble(a) == BigMulSmall(a, 2)

RECURSIVE CmpFrom(_, _, _)
CmpFrom(a, b, i) ==
  IF i = 0 THEN 0
  ELSE IF a[i] > b[i] THEN 1
  ELSE IF a[i] < b[i] THEN -1
  ELSE CmpFrom(a, b, i - 1)

(* -1, 0 or 1 as a < b, a = b or a > b *)
BigCmp(a, b) ==
  IF Len(a) # Len(b) THEN (IF Len(a) > Len(b) THEN 1 ELSE -1)
  ELSE CmpFrom(a, b, Len(a))

BigGeq(a, b) == BigCmp(a, b) >= 0

RECURSIVE BitLenInt(_)
BitLenInt(n) == IF n = 0 THEN 0 ELSE 1 + BitLenInt(n \div 2)

(* The number of bits of a. *)
BitLen(a) ==
  IF a = <<>> THEN 0 ELSE 15 * (Len(a) - 1) + BitLenInt(a[Len(a)])

(* a * 2^d *)
BigShl(a, d) ==
  IF a = <<>> THEN <<>>
  ELSE [i \in 1..(d \div 15) |-> 0] \o BigMulSmall(a, 2^(d % 15))

(* a \div 2^d *)
BigShr(a, d) ==
  LET w  == d \div 15
      r  == d % 15
      hi == IF w >= Len(a) THEN <<>> ELSE SubSeq(a, w + 1, Len(a))
  IN  BigNorm([i \in 1..Len(hi) |->
                 (hi[i] \div 2^r) + (Limb(hi, i + 1) % 2^r) * 2^(15 - r)])

(* a % 2^d *)
BigLow(a, d) == BigSub(a, BigShl(BigShr(a, d), d))

(* n * 2^e, n > 0, rounded to a double. *)
Round53(n, e) ==
  LET len == BitLen(n)
      d   == len - MantBits
      q   == BigShr(n, d)
      c   == BigCmp(BigLow(n, d), BigShl(<<1>>, d - 1))
      up  == c > 0 \/ (c = 0 /\ q[1] % 2 = 1)
      q2  == IF up THEN BigAdd(q, <<1>>) ELSE q
  IN  IF len <= MantBits
      THEN [m |-> BigShl(n, MantBits - len), e |-> e - (MantBits - len)]
      ELSE IF BitLen(q2) > MantBits
           THEN [m |-> BigShr(q2, 1), e |-> e + d + 1]
           ELSE [m |-> q2, e |-> e + d]

RECURSIVE ScaleQ(_, _, _)
(* Doubles q until p < 2 * q; counts the doublings. *)
ScaleQ(p, q, j) ==
  IF BigGeq(p, BigDouble(q)) THEN ScaleQ(p, BigDouble(q), j + 1)
  ELSE [q |-> q, j |-> j]

RECURSIVE DivDigits(_, _, _)
(* Long division, one hexadecimal digit of the quotient a step, until the  *)
(* quotient has at least MantBits + 2 bits.  st holds the quotient so far, *)
(* the remainder and the number k of quotient bits after the binary point; *)
(* mult[j] = j * q.                                                        *)
DivDigits(st, q, mult) ==
  IF BitLen(st.quot) >= MantBits + 2 THEN st
  ELSE LET r16   == BigMulSmall(st.rem, 16)
           digit == Cardinality({j \in 1..15 : BigGeq(r16, mult[j])})
       IN  DivDigits([quot |-> BigAdd(BigMulSmall(st.quot, 16), BigFromInt(digit)),
                      rem  |-> IF digit = 0 THEN r16 ELSE BigSub(r16, mult[digit]),
                      k    |-> st.k + 4], q, mult)

(* (p / q) * 2^e for p, q > 0, rounded to a double: the quotient to at     *)
(* least MantBits + 2 bits and a sticky bit for the remainder, rounded.    *)
FDivBig(p, q, e) ==
  LET sc == ScaleQ(p, q, 0)
      b0 == BigGeq(p, sc.q)
      dv == DivDigits([quot |-> IF b0 THEN <<1>> ELSE <<>>,
                       rem  |-> IF b0 THEN BigSub(p, sc.q) ELSE p,
                       k    |-> 0],
                      sc.q, [j \in 1..15 |-> BigMulSmall(sc.q, j)])
      n  == BigAdd(BigDouble(dv.quot), IF dv.rem = <<>> THEN <<>> ELSE <<1>>)
  IN  Round53(n, e + sc.j - dv.k - 1)

(* The float num / den of two positive ints. *)
FFromRatio(num, den) == FDivBig(BigFromInt(num), BigFromInt(den), 0)

(* x / y *)
FDiv(x, y) == FDivBig(x.m, y.m, x.e - y.e)

(* 1 - x for 0 < x < 1 *)
FOneMinus(x) == Round53(BigSub(BigShl(<<1>>, -x.e), x.m), x.e)

(* x * k for an int 0 < k < Base *)
FMulInt(x, k) == Round53(BigMulSmall(x.m, k), x.e)

(* int(x): x truncated toward zero, 0 < x < 2^31 *)
FTrunc(x) == BigToInt(BigShr(x.m, -x.e))

(* round(x): x to the nearest int, ties to the even one, 0 < x < 2^31 *)
FRound(x) ==
  LET q == BigShr(x.m, -x.e)
      c == BigCmp(BigLow(x.m, -x.e), BigShl(<<1>>, -x.e - 1))
      up == c > 0 \/ (c = 0 /\ Limb(q, 1) % 2 = 1)
  IN  BigToInt(q) + (IF up THEN 1 ELSE 0)

(* (split / (1 - split)) * sample_size as line 76 evaluates it, for the    *)
(* float split = split[1] / split[2] in (0, 1) and sample_size >= 1.       *)
SplitProduct(split, sample_size) ==
  LET s == FFromRatio(split[1], split[2])
  IN  FMulInt(FDiv(s, FOneMinus(s)), sample_size)

(* A variant of NSplit that rounds to the nearest integer. *)
NSplit_round(split, sample_size) == FRound(SplitProduct(split, sample_size))

(* n_split = int((split / (1 - split)) * sample_size) *)
NSplit(split, sample_size) == FTrunc(SplitProduct(split, sample_size))

---------------------------------------------------------------------------
(* Train/test partition builder.                                           *)

(* dataset[:k] of a 1D array *)
Head1(dataset, k) ==
  [shape |-> <<Len(SliceTo(dataset.v, k))>>, v |-> SliceTo(dataset.v, k)]

(* train_test(dataset, sample_size, time_window, std, split).  debug is    *)
(* Python's __debug__: under python -O it is false and the assert of line  *)
(* 78 is compiled out.                                                     *)
train_test(dataset, sample_size, time_window, std, split, debug) ==
  LET n        == dataset.shape[1]
      n_split  == NSplit(split, sample_size)
      hm_train == hankel_matrix(dataset, time_window, <<sample_size>>)
      hm_test  == hankel_matrix(Head1(dataset, n_split + time_window),
                                time_window, <<sample_size>>)
      cnt      == Size3(hm_train)
      sum      == Sum3(hm_train)
  IN  IF debug /\ ~(n > sample_size + n_split)
      THEN [status |-> "AssertionError"]
      ELSE [status  |-> "ok",
            X_train |-> Rescale(hm_train, cnt, sum),
            X_test  |-> Rescale(hm_test, cnt, sum),
            std     |-> std,
            den2    |-> cnt * SumSq3(hm_train) - sum * sum]

---------------------------------------------------------------------------
(* Standardization along the first axis.                                   *)

(* The arithmetic of lines 94-96 on doubles that are zero or positive; the *)
(* double 0.0 is FZero, and a difference carries its sign in sgn.          *)
FZero == [m |-> <<>>, e |-> 0]

(* x + y *)
FAdd(x, y) ==
  IF x.m = <<>> THEN y
  ELSE IF y.m = <<>> THEN x
  ELSE LET e == Min(x.e, y.e)
       IN  Round53(BigAdd(BigShl(x.m, x.e - e), BigShl(y.m, y.e - e)), e)

(* x < y *)
FLess(x, y) ==
  IF y.m = <<>> THEN FALSE
  ELSE IF x.m = <<>> THEN TRUE
  ELSE x.e < y.e \/ (x.e = y.e /\ BigCmp(x.m, y.m) < 0)

(* x - y for x > y *)
FGap(x, y) ==
  IF y.m = <<>> THEN x
  ELSE LET e == Min(x.e, y.e)
       IN  Round53(BigSub(BigShl(x.m, x.e - e), BigShl(y.m, y.e - e)), e)

(* x - y, signed: sgn is -1, 0 or 1 and [m, e] the magnitude. *)
FSub(x, y) ==
  IF x = y THEN [sgn |-> 0, m |-> <<>>, e |-> 0]
  ELSE IF FLess(y, x)
       THEN LET g == FGap(x, y) IN [sgn |-> 1, m |-> g.m, e |-> g.e]
       ELSE LET g == FGap(y, x) IN [sgn |-> -1, m |-> g.m, e |-> g.e]

(* x / k for an int k >= 1 *)
FDivInt(x, k) == IF x.m = <<>> THEN FZero ELSE FDivBig(x.m, BigFromInt(k), x.e)

RECURSIVE SeqSum(_, _)
(* ((0 + col[1]) + col[2]) + ... + col[n] *)
SeqSum(col, n) == IF n = 0 THEN FZero ELSE FAdd(SeqSum(col, n - 1), col[n])

RECURSIVE LaneSum(_, _, _)
(* col[j] + col[j + 8] + ... , cnt terms, left to right *)
LaneSum(col, j, cnt) ==
  IF cnt = 1 THEN col[j]
  ELSE FAdd(LaneSum(col, j, cnt - 1), col[j + 8 * (cnt - 1)])

RECURSIVE AddRest(_, _, _)
(* res + col[i] + ... + col[Len(col)], left to right *)
AddRest(res, col, i) ==
  IF i > Len(col) THEN res ELSE AddRest(FAdd(res, col[i]), col, i + 1)

(* numpy's sum of 8 to 128 doubles that lie along the innermost loop:      *)
(* eight running sums over the multiples of 8, paired up, then the rest.   *)
BlockSum(col) ==
  LET n   == Len(col)
      cnt == n \div 8
      r   == [j \in 1..8 |-> LaneSum(col, j, cnt)]
      res == FAdd(FAdd(FAdd(r[1], r[2]), FAdd(r[3], r[4])),
                  FAdd(FAdd(r[5], r[6]), FAdd(r[7], r[8])))
  IN  AddRest(res, col, 8 * cnt + 1)

(* np.sum along axis 0 of one column.  When the other axes hold more than  *)
(* one element the rows are added one after another; a lone column is      *)
(* summed by the pairwise routine, which for fewer than 8 values is the    *)
(* same left-to-right loop.  Columns are at most 128 long here.            *)
ColSum(col, lone) ==
  IF lone /\ Len(col) >= 8 THEN BlockSum(col) ELSE SeqSum(col, Len(col))

(* x[idx] for an index tuple idx of length 0, 1 or 2 *)
At(x, idx) ==
  CASE Len(idx) = 0 -> x
    [] Len(idx) = 1 -> x[idx[1]]
    [] OTHER        -> x[idx[1]][idx[2]]

(* The doubles a[0][idx], a[1][idx], ... along axis 0. *)
ColAt(a, idx) == [k \in 1..a.shape[1] |-> At(a.v[k], idx)]

(* The index tuples of the axes after the first. *)
InnerIdx(a) ==
  CASE ndim(a) = 1 -> {<<>>}
    [] ndim(a) = 2 -> {<<d>> : d \in 1..a.shape[2]}
    [] OTHER       -> {<<t, d>> : t \in 1..a.shape[2], d \in 1..a.shape[3]}

(* One column of (a - mean) / (scale * stds).  mean is np.mean along axis  *)
(* 0, the sum of the column divided by its length.  np.std is the square   *)
(* root of the mean of the squares of the doubles a[k] - mean, so stds ==  *)
(* 0 of line 95 holds exactly when each of them is 0.  Element k of the    *)
(* result is dev / (scale * s) for the double dev = a[k] - mean and s the  *)
(* column's std, a positive double, or 1 where line 95 replaced it (one is *)
(* then TRUE).                                                             *)
StdColumn(col, lone) ==
  LET L    == Len(col)
      mean == FDivInt(ColSum(col, lone), L)
      dev  == [k \in 1..L |-> FSub(col[k], mean)]
      zero == \A k \in 1..L : dev[k].sgn = 0
  IN  [k \in 1..L |-> [dev |-> dev[k], one |-> zero]]

(* The columns of the result, by the index of the axes after the first. *)
StdColumns(a) ==
  [idx \in InnerIdx(a) |-> StdColumn(ColAt(a, idx), Cardinality(InnerIdx(a)) = 1)]

(* The array whose column at idx is cols[idx]. *)
FromColumns(shape, cols) ==
  [shape |-> shape,
   v |-> CASE Len(shape) = 1 ->
              [k \in 1..shape[1] |-> cols[<<>>][k]]
           [] Len(shape) = 2 ->
              [k \in 1..shape[1] |-> [d \in 1..shape[2] |-> cols[<<d>>][k]]]
           [] OTHER ->
              [k \in 1..shape[1] |-> [t \in 1..shape[2] |->
                 [d \in 1..shape[3] |-> cols[<<t, d>>][k]]]]]

(* standardize_ts(a, scale): mean and std are taken along axis 0 with      *)
(* keepdims and broadcast back, so the result has the shape of a.          *)
standardize_ts(a, scale) ==
  [status |-> "ok",
   scale  |-> scale,
   out    |-> FromColumns(a.shape, StdColumns(a))]

---------------------------------------------------------------------------
(* ARFF loader: the reshaping that follows the parse.                      *)

(* s[-1] *)
LastOf(s) == s[Len(s)]

(* np.array of a list of N equally long rows: shape (N, T) *)
Array2(rows) ==
  [shape |-> <<Len(rows), Len(rows[1])>>, v |-> rows]

(* a.T of a 2D array *)
Transpose2(a) ==
  [shape |-> <<a.shape[2], a.shape[1]>>,
   v     |-> [i \in 1..a.shape[2] |-> [j \in 1..a.shape[1] |-> a.v[j][i]]]]

(* a[:, None, :] of a 2D array: shape (A, B) becomes (A, 1, B) *)
PadSingleton(a) ==
  [shape |-> <<a.shape[1], 1, a.shape[2]>>,
   v     |-> [i \in 1..a.shape[1] |-> <<a.v[i]>>]]

(* np.transpose(a, (0, 2, 1)) of a 3D array *)
Transpose021(a) ==
  [shape |-> <<a.shape[1], a.shape[3], a.shape[2]>>,
   v     |-> [i \in 1..a.shape[1] |-> [j \in 1..a.shape[3] |->
               [k \in 1..a.shape[2] |-> a.v[i][k][j]]]]]

(* The rows of the table without their last entry (the label). *)
FlatRows(data) == [n \in 1..Len(data) |-> SliceTo(data[n], -1)]

(* data_rp as the three branches on fmt_spec build it. *)
ParseTable(data, fmt_spec) ==
  IF fmt_spec = 0 THEN Array2(FlatRows(data))
  ELSE IF fmt_spec = 1
       THEN [shape |-> <<Len(data), Len(data[1][1]), Len(data[1][1][1])>>,
             v     |-> [n \in 1..Len(data) |-> data[n][1]]]
       ELSE Transpose2(Array2(FlatRows(data)))

(* arff_to_data(path, fmt_spec), with data the table arff.loadarff reads   *)
(* from path.  The module never imports the name arff: the call raises     *)
(* NameError unless the caller has bound utils.arff (arff_bound).          *)
arff_to_data(data, fmt_spec, arff_bound) ==
  IF ~arff_bound THEN [status |-> "NameError"]
  ELSE LET y       == [n \in 1..Len(data) |-> LastOf(data[n])]
           data_rp == ParseTable(data, fmt_spec)
           padded  == IF ndim(data_rp) = 2 THEN PadSingleton(data_rp) ELSE data_rp
       IN  [status |-> "ok", data_rp |-> Transpose021(padded), y |-> y]

---------------------------------------------------------------------------
(* lighter.  A float is kept as an exact fraction <<num, den>>, den > 0.   *)

RAdd(x, y) == <<x[1] * y[2] + y[1] * x[2], x[2] * y[2]>>

RSub(x, y) == <<x[1] * y[2] - y[1] * x[2], x[2] * y[2]>>

RMul(x, y) == <<x[1] * y[1], x[2] * y[2]>>

REq(x, y) == x[1] * y[2] = y[1] * x[2]

RLeq(x, y) == x[1] * y[2] <= y[1] * x[2]

(* A variant of lighter that scales the gap by f / 2. *)
lighter_halfgap(clr, f) ==
  LET gaps == [i \in 1..Len(clr) |-> RMul(RMul(f, <<1, 2>>), RSub(<<1, 1>>, clr[i]))]
  IN  [i \in 1..Len(clr) |-> RAdd(clr[i], gaps[i])]

(* lighter(clr, f) *)
lighter(clr, f) ==
  LET gaps == [i \in 1..Len(clr) |-> RMul(f, RSub(<<1, 1>>, clr[i]))]
  IN  [i \in 1..Len(clr) |-> RAdd(clr[i], gaps[i])]

---------------------------------------------------------------------------
(* Input arrays: ramps, so that every position holds a distinct value and  *)
(* an entry of a result identifies the position it was taken from.         *)

Ramp1(T, base) ==
  [shape |-> <<T>>, v |-> [t \in 1..T |-> base + t - 1]]

Ramp2(T, D, base) ==
  [shape |-> <<T, D>>,
   v     |-> [t \in 1..T |-> [d \in 1..D |-> base + (t - 1) * D + (d - 1)]]]

Ramp3(N, T, D, base) ==
  [shape |-> <<N, T, D>>,
   v     |-> [n \in 1..N |-> [t \in 1..T |-> [d \in 1..D |->
                 base + ((n - 1) * T + (t - 1)) * D + (d - 1)]]]]

HankelData ==
  {Ramp1(T, 0) : T \in 1..MaxT}
    \cup {Ramp2(T, D, 0) : T \in 1..MaxT, D \in 1..MaxD}
    \cup {Ramp3(N, T, D, 0) : N \in 1..MaxN, T \in 1..MaxT, D \in 1..MaxD}

OptP == {<<>>} \cup {<<k>> : k \in 0..MaxP}

HankelCalls ==
  {[op |-> "hankel_matrix", data |-> data, q |-> q, p |-> p] :
     data \in HankelData, q \in 0..MaxQ, p \in OptP}

(* split = num / den as a Python float.  For 1/3, 2/3, 3/5 and 7/10 the   *)
(* float product of line 76 falls below the exact quotient for some        *)
(* sample_size.                                                            *)
Splits == {<<1, 4>>, <<1, 2>>, <<3, 4>>, <<1, 3>>, <<2, 3>>, <<3, 5>>, <<7, 10>>}

Stds == {1, 2}

TrainTestCalls ==
  {[op |-> "train_test", dataset |-> Ramp1(n, 0), sample_size |-> s,
    time_window |-> w, std |-> sd, split |-> sp, debug |-> dbg] :
     n \in 1..MaxLen, s \in 1..MaxS, w \in 1..MaxW, sd \in Stds, sp \in Splits,
     dbg \in BOOLEAN}

(* The doubles 0.0, 1.0 and 0.1.  StdData holds the arrays over them of    *)
(* every shape of rank 1 to 3 with at most MaxCells elements.              *)
FOne == FFromRatio(1, 1)

FTenth == FFromRatio(1, 10)

Vals == {FZero, FOne, FTenth}

StdData ==
  UNION {{[shape |-> <<T>>, v |-> v] : v \in [1..T -> Vals]} : T \in 1..MaxCells}
    \cup
  UNION {{[shape |-> <<sh[1], sh[2]>>, v |-> v] :
            v \in [1..sh[1] -> [1..sh[2] -> Vals]]} :
         sh \in {x \in (1..MaxCells) \X (1..MaxCells) : x[1] * x[2] <= MaxCells}}
    \cup
  UNION {{[shape |-> <<sh[1], sh[2], sh[3]>>, v |-> v] :
            v \in [1..sh[1] -> [1..sh[2] -> [1..sh[3] -> Vals]]]} :
         sh \in {x \in (1..MaxCells) \X (1..MaxCells) \X (1..MaxCells) :
                   x[1] * x[2] * x[3] <= MaxCells}}

(* Longer series, 8 to MaxLong steps: one channel, all values x but one y, *)
(* and two channels, one all x and one all y.                              *)
LongData ==
  {[shape |-> <<T>>, v |-> [k \in 1..T |-> IF k = j THEN y ELSE x]] :
     T \in 8..MaxLong, j \in 1..MaxLong, x \in Vals, y \in Vals}
    \cup
  {[shape |-> <<T, 2>>, v |-> [k \in 1..T |-> <<x, y>>]] :
     T \in 8..MaxLong, x \in Vals, y \in Vals}

Scales == {-1, 2}

StandardizeCalls ==
  {[op |-> "standardize_ts", a |-> a, scale |-> sc] :
     a \in StdData \cup LongData, sc \in Scales}

(* Parsed tables.  Flat: one row per sample, T values then the label.      *)
(* Nested: one row per sample, a (D, T) trial then the label.  Sample n    *)
(* has label 100 + n.                                                      *)
FlatTable(N, T) ==
  [n \in 1..N |-> [t \in 1..(T + 1) |-> IF t = T + 1 THEN 100 + n
                                        ELSE (n - 1) * T + (t - 1)]]

NestedTable(N, T, D) ==
  [n \in 1..N |-> <<[d \in 1..D |-> [t \in 1..T |->
                      ((n - 1) * D + (d - 1)) * T + (t - 1)]], 100 + n>>]

FmtOther == {2, 3}

ArffFlatCalls ==
  {[op |-> "arff_to_data", data |-> FlatTable(N, T), N |-> N, T |-> T, D |-> 1,
    fmt_spec |-> fs, arff_bound |-> b] :
     N \in 1..MaxN, T \in 1..MaxT, fs \in {0} \cup FmtOther, b \in BOOLEAN}

ArffNestedCalls ==
  {[op |-> "arff_to_data", data |-> NestedTable(N, T, D), N |-> N, T |-> T,
    D |-> D, fmt_spec |-> 1, arff_bound |-> b] :
     N \in 1..MaxN, T \in 1..MaxT, D \in 1..MaxD, b \in BOOLEAN}

(* Colour components in [0, 1] and brightening fractions in [-1, 2].       *)
Unit == {<<a, b>> : a \in 0..MaxDen, b \in 1..MaxDen} \cap
        {x \in (0..MaxDen) \X (1..MaxDen) : x[1] <= x[2]}

Fractions == {x \in (-MaxDen..(2 * MaxDen)) \X (1..MaxDen) :
                -x[2] <= x[1] /\ x[1] <= 2 * x[2]}

LighterCalls ==
  {[op |-> "lighter", clr |-> <<r, g, b>>, f |-> f] :
     r \in Unit, g \in Unit, b \in Unit, f \in Fractions}

---------------------------------------------------------------------------
(* The state after loading the module: a call with its arguments is about  *)
(* to be made and has not returned.                                        *)
Init ==
  /\ \/ call \in HankelCalls
     \/ call \in TrainTestCalls
     \/ call \in StandardizeCalls
     \/ call \in ArffFlatCalls
     \/ call \in ArffNestedCalls
     \/ call \in LighterCalls
  /\ ret = [status |-> "pending"]

HankelMatrix ==
  /\ call.op = "hankel_matrix"
  /\ ret.status = "pending"
  /\ ret' = [status |-> "ok", out |-> hankel_matrix(call.data, call.q, call.p)]
  /\ UNCHANGED call

TrainTest ==
  /\ call.op = "train_test"
  /\ ret.status = "pending"
  /\ ret' = train_test(call.dataset, call.sample_size, call.time_window,
                       call.std, call.split, call.debug)
  /\ UNCHANGED call

StandardizeTs ==
  /\ call.op = "standardize_ts"
  /\ ret.status = "pending"
  /\ ret' = standardize_ts(call.a, call.scale)
  /\ UNCHANGED call

ArffToData ==
  /\ call.op = "arff_to_data"
  /\ ret.status = "pending"
  /\ ret' = arff_to_data(call.data, call.fmt_spec, call.arff_bound)
  /\ UNCHANGED call

Lighter ==
  /\ call.op = "lighter"
  /\ ret.status = "pending"
  /\ ret' = [status |-> "ok", out |-> lighter(call.clr, call.f)]
  /\ UNCHANGED call

Next == HankelMatrix \/ TrainTest \/ StandardizeTs \/ ArffToData \/ Lighter

Spec == Init /\ [][Next]_vars

---------------------------------------------------------------------------
(* Properties of hankel_matrix.                                            *)

HankelDone == call.op = "hankel_matrix" /\ ret.status = "ok"

(* The call's series as a (T, D) array. *)
Series == IF ndim(call.data) = 1 THEN AddAxis(call.data) ELSE call.data

(* A single series with an explicit p >= 1, q >= 1 and T >= p + q. *)
SingleValid ==
  /\ HankelDone
  /\ ndim(call.data) \in {1, 2}
  /\ call.p # <<>>
  /\ call.p[1] >= 1
  /\ call.q >= 1
  /\ Series.shape[1] >= call.p[1] + call.q

(* C1 as stated: for a single series with p >= 1, q >= 1, T >= p + q,      *)
(* H[i, j, d] = series[d][T - p - q + 1 + i + j] (0-based), and the last    *)
(* entry of the last row is the final sample series[d][T - 1].              *)
C1_AsStated ==
  SingleValid =>
    LET T == Series.shape[1]
        D == Series.shape[2]
        p == call.p[1]
        q == call.q
    IN  /\ ret.out.shape = <<p, q, D>>
        /\ \A d \in 1..D, i \in 0..(p - 1), j \in 0..(q - 1) :
             ret.out.v[i + 1][j + 1][d] = Series.v[(T - p - q + 1 + i + j) + 1][d]
        /\ \A d \in 1..D : ret.out.v[p][q][d] = Series.v[T][d]

(* C1 amended: for a single series with p >= 1, q >= 1, T >= p + q,        *)
(* H[i, j, d] = series[d][T - p - q + i + j] (0-based): the rows are windows *)
(* over the trailing p + q points without the final sample, and the last    *)
(* entry of the last row is series[d][T - 2].                               *)
C1_HankelEntries ==
  SingleValid =>
    LET T == Series.shape[1]
        D == Series.shape[2]
        p == call.p[1]
        q == call.q
    IN  /\ ret.out.shape = <<p, q, D>>
        /\ \A d \in 1..D, i \in 0..(p - 1), j \in 0..(q - 1) :
             ret.out.v[i + 1][j + 1][d] = Series.v[(T - p - q + i + j) + 1][d]
        /\ \A d \in 1..D : ret.out.v[p][q][d] = Series.v[T - 1][d]

C1_Witness ==
  /\ SingleValid
  /\ call.data.shape = <<5, 2>>
  /\ call.p = <<2>>
  /\ call.q = 2
  /\ ret.out.v[2][2][2] = call.data.v[4][2]

(* The number of rows the caller asked for: p, or T - q when p is omitted. *)
RequestedP == IF call.p = <<>> THEN Series.shape[1] - call.q ELSE call.p[1]

(* C2 as stated: for all T, q, p with T >= p + q (T = p + q, p = 0 and p    *)
(* omitted included) the result on a (T, D) series has shape (p, q, D) and  *)
(* every anti-diagonal of every channel slice is constant.                  *)
C2_ShapeAndAntiDiagonals ==
  (/\ HankelDone
   /\ ndim(call.data) = 2
   /\ call.q >= 1
   /\ RequestedP >= 0
   /\ Series.shape[1] >= RequestedP + call.q) =>
    LET D == Series.shape[2]
        p == RequestedP
        q == call.q
    IN  /\ ret.out.shape = <<p, q, D>>
        /\ \A d \in 1..D, i \in 1..p, j \in 1..q, i2 \in 1..p, j2 \in 1..q :
             (i + j = i2 + j2) => (ret.out.v[i][j][d] = ret.out.v[i2][j2][d])

(* C3: a 3D batch of N series gives a result whose leading axis has size N *)
(* and whose slice n is hankel_matrix of series n alone with the same q    *)
(* and p; a 1D series gives the result of the same values as a (T, 1)      *)
(* array.                                                                  *)
C3_BatchAndOneDim ==
  HankelDone =>
    /\ (ndim(call.data) = 3 =>
          /\ ret.out.shape[1] = call.data.shape[1]
          /\ Len(ret.out.v) = call.data.shape[1]
          /\ \A n \in 1..call.data.shape[1] :
               [shape |-> Tail(ret.out.shape), v |-> ret.out.v[n]]
                 = hankel_matrix([shape |-> Tail(call.data.shape),
                                  v |-> call.data.v[n]], call.q, call.p))
    /\ (ndim(call.data) = 1 =>
          ret.out = hankel_matrix(AddAxis(call.data), call.q, call.p))

C3_Witness ==
  /\ HankelDone
  /\ call.data.shape = <<2, 4, 2>>
  /\ call.q = 2
  /\ call.p = <<1>>
  /\ ret.out.shape = <<2, 1, 2, 2>>
  /\ ret.out.v[2][1][1][2] # ret.out.v[1][1][1][2]

---------------------------------------------------------------------------
(* Properties of train_test.                                               *)

TrainTestCalled == call.op = "train_test" /\ ret.status # "pending"

TrainTestDone == call.op = "train_test" /\ ret.status = "ok"

(* The call passes the data check of line 78. *)
PassesCheck ==
  call.dataset.shape[1] > call.sample_size + NSplit(call.split, call.sample_size)

(* C4 as stated: with n_split = round((split / (1 - split)) * sample_size) *)
(* the call (assertions enabled) fails with the insufficient-data error    *)
(* exactly when len(dataset) <= sample_size + n_split.                     *)
C4_AsStated ==
  (TrainTestCalled /\ call.debug) =>
    LET n_split == FRound(SplitProduct(call.split, call.sample_size))
    IN  (ret.status = "AssertionError")
          <=> (call.dataset.shape[1] <= call.sample_size + n_split)

(* C4 amended: n_split is the double-precision product                     *)
(* (split / (1 - split)) * sample_size truncated toward zero, not rounded; *)
(* it is the integer part of the exact quotient or one less (6 for split = *)
(* 0.7 and sample_size = 3).  With assertions enabled the call fails with  *)
(* the insufficient-data error exactly when len(dataset) <= sample_size +  *)
(* n_split and returns otherwise; with assertions disabled it never fails  *)
(* with that error.                                                        *)
C4_CheckTruncates ==
  TrainTestCalled =>
    LET n_split == FTrunc(SplitProduct(call.split, call.sample_size))
        exact   == (call.split[1] * call.sample_size)
                     \div (call.split[2] - call.split[1])
    IN  /\ exact - 1 <= n_split /\ n_split <= exact
        /\ (call.split = <<7, 10>> /\ call.sample_size = 3) => n_split = 6
        /\ (call.split = <<1, 4>> /\ call.sample_size = 2) => n_split = 0
        /\ call.debug =>
             /\ (ret.status = "AssertionError")
                  <=> (call.dataset.shape[1] <= call.sample_size + n_split)
             /\ (ret.status = "ok")
                  <=> (call.dataset.shape[1] > call.sample_size + n_split)
        /\ ~call.debug => ret.status = "ok"

(* split = 0.7 and sample_size = 3: the float product 6.999... truncates   *)
(* to 6 and rounds to 7, and a dataset of 10 samples passes the check.     *)
C4_Witness ==
  /\ TrainTestDone
  /\ call.debug
  /\ call.split = <<7, 10>>
  /\ call.sample_size = 3
  /\ call.dataset.shape[1] = 10
  /\ ret.X_train.shape = <<3, call.time_window, 1>>

(* C5 as stated: when the data check passes, the test matrix is the common *)
(* rescaling of the Hankel matrix of the first n_split + time_window       *)
(* samples built with the default p, and has shape                          *)
(* (n_split, time_window, 1).                                               *)
C5_TestMatrixDefaultP ==
  (TrainTestDone /\ PassesCheck) =>
    LET n_split  == NSplit(call.split, call.sample_size)
        hm_train == hankel_matrix(call.dataset, call.time_window,
                                  <<call.sample_size>>)
        expected == hankel_matrix(Head1(call.dataset, n_split + call.time_window),
                                  call.time_window, <<>>)
    IN  /\ ret.X_test.shape = <<n_split, call.time_window, 1>>
        /\ ret.X_test = Rescale(expected, Size3(hm_train), Sum3(hm_train))

(* C6 as stated: when the data check passes, the train matrix has shape    *)
(* (sample_size, time_window, 1).                                          *)
C6_TrainShape ==
  (TrainTestDone /\ PassesCheck) =>
    ret.X_train.shape = <<call.sample_size, call.time_window, 1>>

(* The values held by a 3D array. *)
Elems3(a) ==
  {a.v[i][j][d] : i \in 1..a.shape[1], j \in 1..a.shape[2], d \in 1..a.shape[3]}

(* C10 as stated: when the data check passes, no dataset position          *)
(* contributes to both matrices.  The dataset is a ramp and the rescaling  *)
(* is the same injective map for both matrices, so a position contributes  *)
(* to both exactly when the two matrices share a value.                    *)
C10_DisjointRanges ==
  (TrainTestDone /\ PassesCheck) => (Elems3(ret.X_train) \cap Elems3(ret.X_test) = {})

---------------------------------------------------------------------------
(* Properties of standardize_ts.                                           *)

StandardizeDone == call.op = "standardize_ts" /\ ret.status = "ok"

(* C7: the result has the shape of the input; in a (T, D) input, and in    *)
(* every series of a batch (N, T, D), a channel that is constant along the *)
(* time axis gets the divisor 1 and becomes all-zero.                      *)
C7_ConstantChannelsZero ==
  StandardizeDone =>
    LET a == call.a
    IN  /\ ret.out.shape = a.shape
        /\ ndim(a) = 2 =>
             \A d \in 1..a.shape[2] :
               (\A t \in 1..a.shape[1] : a.v[t][d] = a.v[1][d]) =>
                 \A t \in 1..a.shape[1] :
                   ret.out.v[t][d].one /\ ret.out.v[t][d].dev.sgn = 0
        /\ ndim(a) = 3 =>
             \A n \in 1..a.shape[1], d \in 1..a.shape[3] :
               (\A t \in 1..a.shape[2] : a.v[n][t][d] = a.v[n][1][d]) =>
                 \A t \in 1..a.shape[2] : ret.out.v[n][t][d].dev.sgn = 0

---------------------------------------------------------------------------
(* Properties of arff_to_data.                                             *)

ArffDone == call.op = "arff_to_data" /\ ret.status = "ok"

(* C8 as stated: for every fmt_spec (0, 1 or an unrecognized value) the    *)
(* returned array is in (N, T, D) orientation, its leading axis has the    *)
(* length N of the returned labels, and D = 1 for a univariate table.      *)
C8_Orientation ==
  ArffDone =>
    /\ Len(ret.y) = call.N
    /\ ret.data_rp.shape = <<call.N, call.T, call.D>>
    /\ ret.data_rp.shape[1] = Len(ret.y)

---------------------------------------------------------------------------
(* Properties of lighter.                                                  *)

LighterDone == call.op = "lighter" /\ ret.status = "ok"

(* C9: every component v maps to v + f * (1 - v); black with f = 0.5 gives *)
(* (0.5, 0.5, 0.5); white gives white for any f; and for v and f in [0, 1] *)
(* every result component lies in [v, 1].                                  *)
C9_Lighter ==
  LighterDone =>
    /\ Len(ret.out) = Len(call.clr)
    /\ \A i \in 1..Len(call.clr) :
         LET v == call.clr[i]
             f == call.f
             o == ret.out[i]
         IN  /\ o[2] > 0
             /\ o[1] * (v[2] * f[2]) = (v[1] * f[2] + f[1] * (v[2] - v[1])) * o[2]
             /\ (v[1] = 0 /\ 2 * f[1] = f[2]) => 2 * o[1] = o[2]
             /\ (v[1] = v[2]) => o[1] = o[2]
             /\ (0 <= f[1] /\ f[1] <= f[2]) => (RLeq(v, o) /\ RLeq(o, <<1, 1>>))

C9_Witness ==
  /\ LighterDone
  /\ call.clr = <<<<0, 1>>, <<0, 1>>, <<0, 1>>>>
  /\ call.f = <<1, 2>>
  /\ \A i \in 1..3 : REq(ret.out[i], <<1, 2>>)

====
